---------------------------- MODULE Spec2Model ----------------------------
(***************************************************************************)
(* A model of multivpn.py: a sequential script that collects options,      *)
(* materialises a credentials file, renders a docker-compose manifest of   *)
(* N VPN proxy services, brings the stack up, shows the proxy endpoints,   *)
(* optionally opens browsers, and tears everything down in a finally       *)
(* block.                                                                  *)
(*                                                                         *)
(* Environment: the user's answers (and Ctrl-C) at every prompt, the exit  *)
(* status of docker / docker-compose / hostname and the presence of the    *)
(* chromium executable are nondeterministic.  The local file system is     *)
(* reliable: open(.., "w"), os.remove of an existing file and `rm -rf`     *)
(* succeed (rm -rf exits 0 whether or not the path exists), so the         *)
(* handlers of lines 310-313 are not reachable in the model.               *)
(*                                                                         *)
(* Text is modelled by what the code looks at: a file name or location is  *)
(* a sequence of characters (startswith is a prefix test on it), the       *)
(* credentials file is its sequence of KEY=value lines, the manifest is    *)
(* the sequence of its service blocks.                                     *)
(***************************************************************************)
EXTENDS Integers, Sequences, FiniteSets, TLC

\* ---------------------------------------------------------------- bounds
\* Largest connection count of the workflow specification Spec.
MaxN == 2
\* argparse: choices=range(1, 11); the rendering specification covers 1..10.
MaxConnections == 10

\* ------------------------------------------------------------ input sets
ANY == <<"a", "n", "y">>
US == <<"u", "s">>
DE == <<"d", "e">>
EMPTY == <<>>

File_us1 == <<"u", "s", "1">>
File_us2 == <<"u", "s", "2">>
File_de1 == <<"d", "e", "1">>
File_u == <<"u">>

\* Locations typed on the command line / at the prompt.
FlagLocations == {ANY, US, DE, EMPTY}
PromptAnswers == {EMPTY, US, DE}

\* The state of /etc/openvpn/ovpn_tcp.
DirMissing == [kind |-> "missing", files |-> {}]
DirNotADir == [kind |-> "file", files |-> {}]
Dir(fs) == [kind |-> "dir", files |-> fs]
ConfigDirStates ==
    {DirMissing, DirNotADir, Dir({}), Dir({File_us1}),
     Dir({File_us1, File_us2}), Dir({File_u, File_de1}),
     Dir({File_us1, File_de1})}

Usernames == {"", "alice"}
Passwords == {"", "s3cret"}

\* ------------------------------------------------------------- file data
Absent == [exists |-> FALSE, content |-> <<>>]
FileWith(c) == [exists |-> TRUE, content |-> c]

\* An optional value: None is the empty set, a value x is {x}.
None == {}
Some(x) == {x}

\* str.startswith
StartsWith(name, prefix) ==
    /\ Len(prefix) <= Len(name)
    /\ SubSeq(name, 1, Len(prefix)) = prefix

\* str.lower on the answers the prompts are given
Lower(s) ==
    CASE s = "YES" -> "yes"
      [] s = "Yes" -> "yes"
      [] s = "NO" -> "no"
      [] OTHER -> s

YesNoAnswers == {"yes", "Yes", "no", ""}


\* ------------------------------------------------------- pure renderers
\* A buggy variant: the prefix filter is skipped.
choose_random_file_NoFilter(directory, prefix) ==
    IF directory.kind # "dir" \/ directory.files = {}
    THEN {None}
    ELSE {Some(f) : f \in directory.files}

\* choose_random_file: the set of values random.choice may return.  The
\* directory errors are caught inside and give None.
choose_random_file(directory, prefix) ==
    IF directory.kind # "dir"
    THEN {None}
    ELSE LET matching_files ==
                 {filename \in directory.files :
                      prefix = None \/ (\E p \in prefix : StartsWith(filename, p))}
         IN  IF matching_files = {}
             THEN {None}
             ELSE {Some(f) : f \in matching_files}

Port(role, number) == [role |-> role, host |-> number, container |-> number]

generate_gluetun_service(vpn_number, server_location, env_file) ==
    LET http_proxy_port == 8888 + vpn_number
        socks5_proxy_port == 1080 + vpn_number
    IN  [name |-> <<"gluetun", vpn_number>>,
         image |-> "qmcgaw/gluetun",
         location |-> server_location,
         config_file |-> None,
         env_file |-> env_file,
         ports |-> <<Port("http", http_proxy_port),
                     Port("socks5", socks5_proxy_port)>>]

\* The prefix handed to choose_random_file (line 92).
LocationPrefix(server_location) ==
    IF server_location # ANY THEN Some(server_location) ELSE None

\* generate_openvpn_proxy_service with the file random.choice picked
\* (chosen, an element of choose_random_file's results) and the output of
\* `hostname -I` (local_ip, None when the command fails or prints nothing).
generate_openvpn_proxy_service(vpn_number, server_location, openvpn_config_dir, env_file, chosen, local_ip) ==
    IF openvpn_config_dir.kind = "missing"
    THEN [raised |-> "FileNotFoundError", service |-> None]
    ELSE IF openvpn_config_dir.kind # "dir"
    THEN [raised |-> "NotADirectoryError", service |-> None]
    ELSE IF chosen = None
    THEN [raised |-> "FileNotFoundError", service |-> None]
    ELSE IF local_ip = None
    THEN [raised |-> "CalledProcessError", service |-> None]
    ELSE LET http_proxy_port == 8888 + vpn_number
         IN  [raised |-> "none",
              service |->
                  Some([name |-> <<"openvpn_proxy", vpn_number>>,
                        image |-> "jonoh/openvpn-proxy",
                        location |-> server_location,
                        config_file |-> chosen,
                        env_file |-> env_file,
                        ports |-> <<Port("http", http_proxy_port)>>])]

\* One iteration of the loop of generate_combined_docker_compose.
RenderSlot(i, method_choice, locs, env_file, dir, picks, local_ip) ==
    IF method_choice = "1"
    THEN IF i > Len(locs)
         THEN [raised |-> "IndexError", service |-> None]
         ELSE [raised |-> "none",
               service |-> Some(generate_gluetun_service(i, locs[i], env_file))]
    ELSE IF method_choice = "2"
    THEN IF i > Len(locs)
         THEN [raised |-> "IndexError", service |-> None]
         ELSE generate_openvpn_proxy_service(i, locs[i], dir, env_file,
                                             picks[i], local_ip)
    ELSE [raised |-> "ValueError", service |-> None]

\* The loop from slot i on: the blocks rendered before the first exception
\* and that exception ("none" when every slot rendered).
RECURSIVE RenderLoop(_, _, _, _, _, _, _, _)
RenderLoop(i, n, method_choice, locs, env_file, dir, picks, local_ip) ==
    IF i > n
    THEN [raised |-> "none", services |-> <<>>]
    ELSE LET r == RenderSlot(i, method_choice, locs, env_file, dir, picks, local_ip)
         IN  IF r.raised # "none"
             THEN [raised |-> r.raised, services |-> <<>>]
             ELSE LET rest == RenderLoop(i + 1, n, method_choice, locs, env_file,
                                         dir, picks, local_ip)
                      block == CHOOSE s \in r.service : TRUE
                  IN  [raised |-> rest.raised,
                       services |-> <<block>> \o rest.services]

\* A buggy variant: the manifest is opened for writing before the loop, so a
\* failing slot leaves the blocks rendered so far on disk.
generate_combined_docker_compose_WriteFirst(num_connections, method_choice, server_locations, env_file, dir, picks, local_ip, old_file) ==
    LET r == RenderLoop(1, num_connections, method_choice, server_locations,
                        env_file, dir, picks, local_ip)
    IN  [raised |-> r.raised, compose |-> FileWith(r.services)]

\* A buggy variant: the renderer is given the slot's 0-based index.
generate_combined_docker_compose_ZeroBased(num_connections, method_choice, server_locations, env_file, dir, picks, local_ip, old_file) ==
    LET r == RenderLoop(1, num_connections, method_choice, server_locations,
                        env_file, dir, picks, local_ip)
        shifted == [k \in 1..Len(r.services) |->
                      [r.services[k] EXCEPT
                         !.ports = [j \in 1..Len(@) |->
                                      Port(@[j].role, @[j].host - 1)]]]
    IN  IF r.raised # "none"
        THEN [raised |-> r.raised, compose |-> old_file]
        ELSE [raised |-> "none", compose |-> FileWith(shifted)]

\* generate_combined_docker_compose: the exception it raises and the
\* manifest file afterwards (old_file is the file before the call).
generate_combined_docker_compose(num_connections, method_choice, server_locations, env_file, dir, picks, local_ip, old_file) ==
    LET r == RenderLoop(1, num_connections, method_choice, server_locations,
                        env_file, dir, picks, local_ip)
    IN  IF r.raised # "none"
        THEN [raised |-> r.raised, compose |-> old_file]
        ELSE [raised |-> "none", compose |-> FileWith(r.services)]

\* The picks random.choice can make for the slots of one run.
PossiblePicks(num_connections, server_locations, dir) ==
    {picks \in [1..num_connections -> {None} \cup {Some(f) : f \in dir.files}] :
        \A i \in 1..num_connections :
            picks[i] \in choose_random_file(dir,
                LocationPrefix(IF i <= Len(server_locations)
                               THEN server_locations[i] ELSE ANY))}

\* ------------------------------------------------------ credentials file
EnvContent(nordvpn_username, nordvpn_password) ==
    << <<"NORDVPN_USERNAME", nordvpn_username>>,
       <<"NORDVPN_PASSWORD", nordvpn_password>>,
       <<"OPENVPN_USERNAME", nordvpn_username>>,
       <<"OPENVPN_PASSWORD", nordvpn_password>> >>

\* A buggy variant: no existence check and no emptiness check.
create_or_use_env_file_Overwrite(file, nordvpn_username, nordvpn_password) ==
    [raised |-> "none",
     file |-> FileWith(EnvContent(nordvpn_username, nordvpn_password))]

\* A buggy variant: the emptiness check is missing.
create_or_use_env_file_NoCheck(file, nordvpn_username, nordvpn_password) ==
    IF file.exists
    THEN [raised |-> "none", file |-> file]
    ELSE [raised |-> "none",
          file |-> FileWith(EnvContent(nordvpn_username, nordvpn_password))]

create_or_use_env_file(file, nordvpn_username, nordvpn_password) ==
    IF file.exists
    THEN [raised |-> "none", file |-> file]
    ELSE IF nordvpn_username = "" \/ nordvpn_password = ""
    THEN [raised |-> "ValueError", file |-> file]
    ELSE [raised |-> "none",
          file |-> FileWith(EnvContent(nordvpn_username, nordvpn_password))]

\* -------------------------------------------------------- start and stop
\* start_vpn_connection, given what `docker-compose up -d` did.
start_vpn_connection(outcome) == outcome # "CalledProcessError"

\* An exception after a try block whose except clauses name `handled`.
Except(raised, handled) == IF raised \in handled THEN "none" ELSE raised

\* A buggy variant: the CalledProcessError handler is missing.
stop_vpn_connections_Uncaught(outcome) ==
    Except(IF outcome = "ok" THEN "none" ELSE outcome, {"FileNotFoundError"})

\* stop_vpn_connections, given what `docker-compose down` did ("ok" or the
\* exception subprocess.run raised): the exception it lets through.
stop_vpn_connections(outcome) ==
    Except(IF outcome = "ok" THEN "none" ELSE outcome,
           {"FileNotFoundError", "CalledProcessError"})

\* --------------------------------------------------------------- display
\* display_proxy_info: the endpoints printed, each on localhost.
display_proxy_info(num_connections) ==
    UNION {{<<"http", 8888 + i>>, <<"socks5", 1080 + i>>} :
               i \in 1..num_connections}

\* open_browser_with_proxy: the process spawned, none when chromium-browser
\* is not installed (FileNotFoundError, caught).
open_browser_with_proxy(proxy_type, port, profile_name, installed) ==
    IF installed
    THEN {[proxy_type |-> proxy_type, proxy_port |-> port, profile |-> profile_name]}
    ELSE {}

\* --------------------------------------------------------------- cleanup
\* os.remove
os_remove(file) ==
    IF file.exists
    THEN [raised |-> "none", file |-> Absent]
    ELSE [raised |-> "FileNotFoundError", file |-> file]

\* A buggy variant: os.remove is not guarded against a missing file.
cleanup_Unguarded(compose, env, profile_dirs, num_connections) ==
    LET r1 == os_remove(compose)
        r2 == os_remove(env)
    IN  IF r1.raised # "none"
        THEN [raised |-> r1.raised, compose |-> r1.file, env |-> env,
              profiles |-> profile_dirs]
        ELSE IF r2.raised # "none"
        THEN [raised |-> r2.raised, compose |-> r1.file, env |-> r2.file,
              profiles |-> profile_dirs]
        ELSE [raised |-> "none", compose |-> r1.file, env |-> r2.file,
              profiles |-> profile_dirs \ (1..num_connections)]

\* The body of `if cleanup == "yes"`: the exception it lets through and the
\* files afterwards.  `rm -rf chrome_profile_i` runs for i = 1..N and exits 0
\* (the reliable file system of the header), so neither handler of lines
\* 310-313 is taken.
cleanup(compose, env, profile_dirs, num_connections) ==
    LET r1 == os_remove(compose)
        e1 == Except(r1.raised, {"FileNotFoundError"})
        r2 == os_remove(env)
        e2 == Except(r2.raised, {"FileNotFoundError"})
    IN  IF e1 # "none"
        THEN [raised |-> e1, compose |-> r1.file, env |-> env,
              profiles |-> profile_dirs]
        ELSE IF e2 # "none"
        THEN [raised |-> e2, compose |-> r1.file, env |-> r2.file,
              profiles |-> profile_dirs]
        ELSE [raised |-> "none", compose |-> r1.file, env |-> r2.file,
              profiles |-> profile_dirs \ (1..num_connections)]

\* ----------------------------------------------------------------- state
VARIABLES
    pc,                \* the statement of __main__ about to run
    num_connections,   \* 0 until resolved
    method_choice,     \* "" until resolved
    server_locations,
    env_file,          \* the credentials file on disk
    compose_file,      \* docker-compose.yml on disk
    profiles,          \* the i whose ./chrome_profile_i exists
    config_dir,        \* /etc/openvpn/ovpn_tcp
    config_file,       \* the global name config_file: "unbound" or the path
    stack,             \* the containers: "down", "partial" or "up"
    displayed,         \* the endpoints printed by display_proxy_info
    browsers,          \* the browser processes spawned
    pending,           \* the exception in flight through the finally block
    exit_status,       \* "running", "0", or the exception that ended the run
    hist               \* what happened so far (for stating the properties)

vars == <<pc, num_connections, method_choice, server_locations, env_file, compose_file, profiles, config_dir, config_file, stack, displayed, browsers, pending, exit_status, hist>>

PriorEnv == FileWith(EnvContent("bob", "hunter2"))
PriorCompose == FileWith(<<generate_gluetun_service(7, DE, ".env-old")>>)

EnvFileName == ".env-nordvpn"

Hist0(env, compose, dirs) ==
    [env0 |-> env, compose0 |-> compose, profiles0 |-> dirs, supplied |-> None, tried |-> FALSE,
     generate |-> "not run", up |-> "not run", down |-> "not run",
     cleanup |-> "not asked", snapshots |-> <<>>]

Init ==
    /\ pc = "check_prerequisites"
    /\ num_connections = 0
    /\ method_choice = ""
    /\ server_locations = <<>>
    /\ env_file \in {Absent, PriorEnv}
    /\ compose_file \in {Absent, PriorCompose}
    /\ profiles \in SUBSET (1..MaxN)
    /\ config_dir \in ConfigDirStates
    /\ config_file = "unbound"
    /\ stack = "down"
    /\ displayed = {}
    /\ browsers = {}
    /\ pending = "none"
    /\ exit_status = "running"
    /\ hist = Hist0(env_file, compose_file, profiles)

\* The process ends with an uncaught exception (or exit code).
Terminate(status) ==
    /\ pc' = "done"
    /\ exit_status' = status

\* --------------------------------------------------------------- actions
\* Lines 218-219.
CheckPrerequisites ==
    /\ pc = "check_prerequisites"
    /\ \E outcome \in {"ok", "FileNotFoundError", "CalledProcessError"} :
          IF outcome = "ok"
          THEN pc' = "num_connections" /\ UNCHANGED exit_status
          ELSE Terminate("SystemExit(1)")
    /\ UNCHANGED <<num_connections, method_choice, server_locations, env_file, compose_file, profiles, config_dir, config_file, stack, displayed, browsers, pending, hist>>

\* Line 233: --num-connections, or the prompt (which int() or Ctrl-C may end).
ResolveNumConnections ==
    /\ pc = "num_connections"
    /\ \/ \E n \in 1..MaxN :
             /\ num_connections' = n
             /\ pc' = "credentials"
             /\ UNCHANGED exit_status
       \/ \E e \in {"ValueError", "KeyboardInterrupt"} :
             /\ Terminate(e)
             /\ UNCHANGED num_connections
    /\ UNCHANGED <<method_choice, server_locations, env_file, compose_file, profiles, config_dir, config_file, stack, displayed, browsers, pending, hist>>

\* Lines 236-242.
MaterializeCredentials ==
    /\ pc = "credentials"
    /\ IF ~env_file.exists
       THEN \/ \E nordvpn_username \in Usernames, nordvpn_password \in Passwords :
                 LET r == create_or_use_env_file(env_file, nordvpn_username, nordvpn_password)
                 IN  /\ env_file' = r.file
                     /\ hist' = [hist EXCEPT !.supplied = Some(<<nordvpn_username, nordvpn_password>>)]
                     /\ IF r.raised = "none"
                        THEN pc' = "method" /\ UNCHANGED exit_status
                        ELSE Terminate(r.raised)
            \/ /\ Terminate("KeyboardInterrupt")
               /\ UNCHANGED <<env_file, hist>>
       ELSE LET r == create_or_use_env_file(env_file, "", "")
            IN  /\ env_file' = r.file
                /\ UNCHANGED hist
                /\ IF r.raised = "none"
                   THEN pc' = "method" /\ UNCHANGED exit_status
                   ELSE Terminate(r.raised)
    /\ UNCHANGED <<num_connections, method_choice, server_locations, compose_file, profiles, config_dir, config_file, stack, displayed, browsers, pending>>

\* Line 244: --method takes "1" or "2"; the prompt takes anything.
ResolveMethod ==
    /\ pc = "method"
    /\ \/ \E m \in {"1", "2", "3"} :
             /\ method_choice' = m
             /\ pc' = "server_locations"
             /\ UNCHANGED exit_status
       \/ /\ Terminate("KeyboardInterrupt")
          /\ UNCHANGED method_choice
    /\ UNCHANGED <<num_connections, server_locations, env_file, compose_file, profiles, config_dir, config_file, stack, displayed, browsers, pending, hist>>

\* --server-locations: any non-empty list, whatever its length.
FlagLocationLists(n) ==
    UNION {[1..k -> FlagLocations] : k \in {j \in {n - 1, n} : j >= 1}}

\* The prompts of lines 251-253: one answer per slot, blank meaning "any".
PromptLocationLists(n) ==
    {[i \in 1..n |-> IF answers[i] # EMPTY THEN answers[i] ELSE ANY] :
         answers \in [1..n -> PromptAnswers]}

\* Lines 246-253.
ResolveLocations ==
    /\ pc = "server_locations"
    /\ \/ \E locs \in FlagLocationLists(num_connections) \cup PromptLocationLists(num_connections) :
             /\ server_locations' = locs
             /\ pc' = "generate"
             /\ UNCHANGED exit_status
       \/ /\ Terminate("KeyboardInterrupt")
          /\ UNCHANGED server_locations
    /\ UNCHANGED <<num_connections, method_choice, env_file, compose_file, profiles, config_dir, config_file, stack, displayed, browsers, pending, hist>>

LocalIps == {None, Some("192.168.1.10")}

\* Lines 256-262: the try block is entered and the manifest generated.
GenerateManifest ==
    /\ pc = "generate"
    /\ \E picks \in PossiblePicks(num_connections, server_locations, config_dir), local_ip \in LocalIps :
          LET r == generate_combined_docker_compose(num_connections, method_choice, server_locations, EnvFileName, config_dir, picks, local_ip, compose_file)
          IN  /\ compose_file' = r.compose
              /\ hist' = [hist EXCEPT !.tried = TRUE, !.generate = r.raised]
              /\ IF r.raised = "none"
                 THEN /\ config_file' = "docker-compose.yml"
                      /\ pc' = "start"
                      /\ UNCHANGED pending
                 ELSE /\ pending' = r.raised
                      /\ pc' = "finally"
                      /\ UNCHANGED config_file
    /\ UNCHANGED <<num_connections, method_choice, server_locations, env_file, profiles, config_dir, stack, displayed, browsers, exit_status>>

\* A buggy variant: the result of start_vpn_connection is ignored.
StartVpn_IgnoreResult ==
    /\ pc = "start"
    /\ \E outcome \in {"ok", "CalledProcessError"} :
          /\ hist' = [hist EXCEPT !.up = outcome]
          /\ stack' = IF outcome = "ok" THEN "up" ELSE "partial"
          /\ pc' = "display"
          /\ UNCHANGED pending
    /\ UNCHANGED <<num_connections, method_choice, server_locations, env_file, compose_file, profiles, config_dir, config_file, displayed, browsers, exit_status>>

\* Lines 264-267: `docker-compose up -d`; a failure is exit(1), raised inside
\* the try block.
StartVpn ==
    /\ pc = "start"
    /\ \E outcome \in {"ok", "CalledProcessError"} :
          /\ hist' = [hist EXCEPT !.up = outcome]
          /\ IF start_vpn_connection(outcome)
             THEN /\ stack' = "up"
                  /\ pc' = "display"
                  /\ UNCHANGED pending
             ELSE /\ stack' \in {"down", "partial"}
                  /\ pending' = "SystemExit(1)"
                  /\ pc' = "finally"
    /\ UNCHANGED <<num_connections, method_choice, server_locations, env_file, compose_file, profiles, config_dir, config_file, displayed, browsers, exit_status>>

\* Lines 269-270.
DisplayProxyInfo ==
    /\ pc = "display"
    /\ displayed' = display_proxy_info(num_connections)
    /\ pc' = "open_browsers"
    /\ UNCHANGED <<num_connections, method_choice, server_locations, env_file, compose_file, profiles, config_dir, config_file, stack, browsers, pending, exit_status, hist>>

\* Lines 272-280: each browser that starts creates its profile directory.
OpenBrowsers ==
    /\ pc = "open_browsers"
    /\ \/ \E answer \in YesNoAnswers, installed \in BOOLEAN :
             /\ IF Lower(answer) = "yes"
                THEN /\ browsers' = UNION {open_browser_with_proxy("http", 8888 + i, i, installed) : i \in 1..num_connections}
                     /\ profiles' = profiles \cup {b.profile : b \in browsers'}
                ELSE UNCHANGED <<browsers, profiles>>
             /\ pc' = "wait"
             /\ UNCHANGED pending
       \/ /\ pending' = "KeyboardInterrupt"
          /\ pc' = "finally"
          /\ UNCHANGED <<browsers, profiles>>
    /\ UNCHANGED <<num_connections, method_choice, server_locations, env_file, compose_file, config_dir, config_file, stack, displayed, exit_status, hist>>

\* Line 282.
WaitForEnter ==
    /\ pc = "wait"
    /\ pending' \in {"none", "KeyboardInterrupt"}
    /\ pc' = "finally"
    /\ UNCHANGED <<num_connections, method_choice, server_locations, env_file, compose_file, profiles, config_dir, config_file, stack, displayed, browsers, exit_status, hist>>

\* Lines 284-288: evaluating the unbound name config_file raises NameError
\* before stop_vpn_connections is called.
FinallyStop ==
    /\ pc = "finally"
    /\ IF config_file = "unbound"
       THEN /\ Terminate("NameError")
            /\ UNCHANGED <<stack, hist>>
       ELSE \E outcome \in {"ok", "CalledProcessError", "FileNotFoundError"} :
               LET raised == stop_vpn_connections(outcome)
               IN  /\ hist' = [hist EXCEPT !.down = outcome]
                   /\ stack' = IF outcome = "ok" THEN "down" ELSE stack
                   /\ IF raised = "none"
                      THEN pc' = "cleanup" /\ UNCHANGED exit_status
                      ELSE Terminate(raised)
    /\ UNCHANGED <<num_connections, method_choice, server_locations, env_file, compose_file, profiles, config_dir, config_file, displayed, browsers, pending>>

Snapshot(r) == [raised |-> r.raised, compose |-> r.compose, env |-> r.env, profiles |-> r.profiles]

\* Lines 291-314, and the end of the finally block, which re-raises the
\* exception in flight.
CleanupPrompt ==
    /\ pc = "cleanup"
    /\ \/ \E answer \in YesNoAnswers :
             IF Lower(answer) = "yes"
             THEN LET r == cleanup(compose_file, env_file, profiles, num_connections)
                  IN  /\ compose_file' = r.compose
                      /\ env_file' = r.env
                      /\ profiles' = r.profiles
                      /\ hist' = [hist EXCEPT !.cleanup = "yes", !.snapshots = Append(@, Snapshot(r))]
                      /\ Terminate(IF r.raised # "none" THEN r.raised
                                   ELSE IF pending # "none" THEN pending ELSE "0")
             ELSE /\ UNCHANGED <<compose_file, env_file, profiles>>
                  /\ hist' = [hist EXCEPT !.cleanup = "no"]
                  /\ Terminate(IF pending # "none" THEN pending ELSE "0")
       \/ /\ Terminate("KeyboardInterrupt")
          /\ hist' = [hist EXCEPT !.cleanup = "interrupted"]
          /\ UNCHANGED <<compose_file, env_file, profiles>>
    /\ UNCHANGED <<num_connections, method_choice, server_locations, config_dir, config_file, stack, displayed, browsers, pending>>

Next ==
    \/ CheckPrerequisites
    \/ ResolveNumConnections
    \/ MaterializeCredentials
    \/ ResolveMethod
    \/ ResolveLocations
    \/ GenerateManifest
    \/ StartVpn
    \/ DisplayProxyInfo
    \/ OpenBrowsers
    \/ WaitForEnter
    \/ FinallyStop
    \/ CleanupPrompt

Spec == Init /\ [][Next]_vars

\* ------------------------------------------- rendering, for N up to 10
\* The state when the try block is entered, for every connection count
\* argparse accepts, with one location for all slots.
InitRender ==
    /\ pc = "generate"
    /\ num_connections \in 1..MaxConnections
    /\ method_choice \in {"1", "2"}
    /\ server_locations \in {[i \in 1..num_connections |-> l] : l \in FlagLocations}
    /\ env_file = PriorEnv
    /\ compose_file \in {Absent, PriorCompose}
    /\ profiles = {}
    /\ config_dir \in {DirMissing, Dir({File_us1}), Dir({File_us1, File_us2})}
    /\ config_file = "unbound"
    /\ stack = "down"
    /\ displayed = {}
    /\ browsers = {}
    /\ pending = "none"
    /\ exit_status = "running"
    /\ hist = Hist0(env_file, compose_file, profiles)

NextRender ==
    \/ GenerateManifest
    \/ StartVpn
    \/ DisplayProxyInfo

SpecRender == InitRender /\ [][NextRender]_vars

\* ------------------------------------------------ the cleanup step alone
\* The cleanup step run (again) on whatever is on disk.
CleanupAgain ==
    /\ pc = "cleanup_only"
    /\ Len(hist.snapshots) < 2
    /\ LET r == cleanup(compose_file, env_file, profiles, num_connections)
       IN  /\ compose_file' = r.compose
           /\ env_file' = r.env
           /\ profiles' = r.profiles
           /\ hist' = [hist EXCEPT !.cleanup = "yes", !.snapshots = Append(@, Snapshot(r))]
    /\ UNCHANGED <<pc, num_connections, method_choice, server_locations, config_dir, config_file, stack, displayed, browsers, pending, exit_status>>

InitCleanup ==
    /\ pc = "cleanup_only"
    /\ num_connections \in 1..MaxN
    /\ method_choice = "1"
    /\ server_locations = [i \in 1..num_connections |-> ANY]
    /\ env_file \in {Absent, PriorEnv}
    /\ compose_file \in {Absent, PriorCompose}
    /\ profiles \in SUBSET (1..(MaxN + 1))
    /\ config_dir = DirMissing
    /\ config_file = "docker-compose.yml"
    /\ stack = "down"
    /\ displayed = {}
    /\ browsers = {}
    /\ pending = "none"
    /\ exit_status = "running"
    /\ hist = Hist0(env_file, compose_file, profiles)

NextCleanup == CleanupAgain

SpecCleanup == InitCleanup /\ [][NextCleanup]_vars

\* ------------------------------------------------------------ properties
Done == pc = "done"

\* The manifest this run generated is on disk (not yet deleted by cleanup).
ManifestGenerated == config_file # "unbound" /\ compose_file.exists /\ hist.generate = "none"

Blocks == compose_file.content

\* The host ports a manifest publishes, with their role.
Published(content) ==
    UNION {{<<content[k].ports[j].role, content[k].ports[j].host>> :
               j \in 1..Len(content[k].ports)} : k \in 1..Len(content)}

\* C1 (as claimed): once the try block is entered, stop_vpn_connections is
\* invoked before the program terminates, on every exit path.
C1_StopInvokedOnEveryExit ==
    (Done /\ hist.tried) => hist.down # "not run"

\* C2 (as claimed): the manifest has N blocks and block i publishes the pair
\* (HTTP 8888+i, SOCKS5 1080+i), for method 1 and for method 2.
C2_PortPairsForBothMethods ==
    ManifestGenerated =>
        /\ Len(Blocks) = num_connections
        /\ \A i \in 1..Len(Blocks) :
              Blocks[i].ports = <<Port("http", 8888 + i), Port("socks5", 1080 + i)>>

\* C2 (amended): whenever generation returns, the manifest has exactly N
\* blocks; block i publishes HTTP 8888+i, with method 1 also SOCKS5 1080+i and
\* with method 2 nothing else; each role's ports strictly increase with i and
\* no port number is used twice, across slots or across roles.
C2_PortsPerMethod ==
    ManifestGenerated =>
        /\ Len(Blocks) = num_connections
        /\ \A i \in 1..Len(Blocks) :
              /\ method_choice = "1" =>
                    Blocks[i].ports = <<Port("http", 8888 + i), Port("socks5", 1080 + i)>>
              /\ method_choice = "2" =>
                    Blocks[i].ports = <<Port("http", 8888 + i)>>
        /\ \A i, j \in 1..Len(Blocks) :
              i < j => \A a \in 1..Len(Blocks[i].ports), b \in 1..Len(Blocks[j].ports) :
                          /\ Blocks[i].ports[a].host # Blocks[j].ports[b].host
                          /\ Blocks[i].ports[a].role = Blocks[j].ports[b].role
                                => Blocks[i].ports[a].host < Blocks[j].ports[b].host
        /\ \A i \in 1..Len(Blocks) : \A a, b \in 1..Len(Blocks[i].ports) :
              a # b => Blocks[i].ports[a].host # Blocks[i].ports[b].host

C2_Witness ==
    /\ ManifestGenerated
    /\ num_connections = MaxConnections
    /\ method_choice = "2"
    /\ Len(Blocks) = MaxConnections

\* The credentials the user supplied were both non-empty.
SuppliedNonEmpty == \E c \in hist.supplied : c[1] # "" /\ c[2] # ""

\* C3 (as claimed): at the end of the run a credentials file that was present
\* is unchanged, and one that was absent holds the supplied non-empty values.
C3_FileKeptAfterRun ==
    Done =>
        /\ hist.env0.exists => env_file = hist.env0
        /\ (~hist.env0.exists /\ SuppliedNonEmpty) =>
              \E c \in hist.supplied : env_file = FileWith(EnvContent(c[1], c[2]))

\* C3 (amended): throughout the run the credentials file is never
\* overwritten: one present before the run is unchanged, one absent before
\* the run holds exactly the supplied non-empty values once they are given
\* (and stays absent otherwise); the one exception is opt-in cleanup, after
\* which the file is absent.
C3_FileKeptUnlessCleanedUp ==
    LET deleted == hist.cleanup = "yes" /\ ~env_file.exists
    IN  /\ hist.env0.exists => (env_file = hist.env0 \/ deleted)
        /\ (~hist.env0.exists /\ SuppliedNonEmpty) =>
              \/ \E c \in hist.supplied : env_file = FileWith(EnvContent(c[1], c[2]))
              \/ deleted
        /\ (~hist.env0.exists /\ ~SuppliedNonEmpty) => ~env_file.exists

C3_Witness ==
    /\ Done
    /\ exit_status = "0"
    /\ ~hist.env0.exists
    /\ hist.cleanup = "no"
    /\ env_file = FileWith(EnvContent("alice", "s3cret"))

\* Slot i of a method-2 run has no usable configuration file.
SlotUnusable(i) ==
    \/ config_dir.kind # "dir"
    \/ choose_random_file(config_dir, LocationPrefix(server_locations[i])) = {None}

\* C4: with method 2, when the configuration directory is missing or not a
\* directory or holds no file for some slot, generation fails before the
\* manifest is written: the manifest on disk stays as it was before the run
\* and the stack is never started.
C4_FailedGenerationWritesNothing ==
    (/\ hist.tried
     /\ method_choice = "2"
     /\ \E i \in 1..num_connections : i <= Len(server_locations) /\ SlotUnusable(i))
    => /\ hist.generate \notin {"none", "not run"}
       /\ compose_file = hist.compose0
       /\ hist.up = "not run"
       /\ stack = "down"

C4_Witness ==
    /\ Done
    /\ hist.tried
    /\ method_choice = "2"
    /\ num_connections = 2
    /\ server_locations = <<US, DE>>
    /\ config_dir = Dir({File_us1})
    /\ hist.compose0 = PriorCompose
    /\ hist.generate = "FileNotFoundError"

\* C5: proxy endpoints are displayed and browsers spawned only after
\* start_vpn_connection succeeded; when orchestration-up fails the run is
\* aborted with nothing displayed and no browser spawned.
C5_DisplayOnlyAfterStart ==
    /\ (displayed # {} \/ browsers # {}) => hist.up = "ok"
    /\ hist.up = "CalledProcessError" =>
          /\ displayed = {} /\ browsers = {}
          /\ pc \in {"finally", "cleanup", "done"}
          /\ Done => exit_status \notin {"0", "running"}

C5_Witness ==
    /\ Done
    /\ hist.up = "CalledProcessError"
    /\ exit_status = "SystemExit(1)"

\* C6: a failing orchestration-down is only logged: the run goes on to the
\* cleanup prompt, and on opt-in the manifest, the credentials file and the
\* profile directories 1..N are deleted.
C6_StopFailureIsNotFatal ==
    hist.down \in {"CalledProcessError", "FileNotFoundError"} =>
        /\ pc \in {"cleanup", "done"}
        /\ Done => hist.cleanup # "not asked"
        /\ (Done /\ hist.cleanup = "yes") =>
              /\ ~compose_file.exists
              /\ ~env_file.exists
              /\ profiles \cap (1..num_connections) = {}
              /\ Len(hist.snapshots) = 1 /\ hist.snapshots[1].raised = "none"

C6_Witness ==
    /\ Done
    /\ hist.down = "CalledProcessError"
    /\ hist.cleanup = "yes"
    /\ browsers # {}
    /\ profiles \cap (1..num_connections) = {}

\* C7: cleanup is idempotent: whatever subset of manifest, credentials file
\* and profile directories is present, it raises nothing and leaves the
\* manifest, the credentials file and the directories 1..N absent, and a
\* second run raises nothing and leaves the same state.
C7_CleanupIdempotent ==
    /\ \A k \in 1..Len(hist.snapshots) :
          /\ hist.snapshots[k].raised = "none"
          /\ ~hist.snapshots[k].compose.exists
          /\ ~hist.snapshots[k].env.exists
          /\ hist.snapshots[k].profiles \cap (1..num_connections) = {}
          /\ hist.snapshots[k].profiles = hist.profiles0 \ (1..num_connections)
    /\ Len(hist.snapshots) >= 1 =>
          /\ compose_file = hist.snapshots[Len(hist.snapshots)].compose
          /\ env_file = hist.snapshots[Len(hist.snapshots)].env
          /\ profiles = hist.snapshots[Len(hist.snapshots)].profiles
    /\ Len(hist.snapshots) = 2 => hist.snapshots[2] = hist.snapshots[1]

C7_Witness ==
    /\ Len(hist.snapshots) = 2
    /\ ~hist.compose0.exists
    /\ hist.env0.exists
    /\ num_connections = 2
    /\ hist.profiles0 = {2, 3}

\* C8: with the credentials file absent and an empty username or password,
\* create_or_use_env_file fails without creating the file and the run ends
\* before a manifest is written and before orchestration-up is invoked.
C8_EmptyCredentialsAreFatal ==
    (~hist.env0.exists /\ \E c \in hist.supplied : c[1] = "" \/ c[2] = "") =>
        /\ Done
        /\ exit_status = "ValueError"
        /\ ~env_file.exists
        /\ ~hist.tried
        /\ compose_file = hist.compose0
        /\ hist.up = "not run"

C8_Witness ==
    /\ Done
    /\ exit_status = "ValueError"
    /\ hist.supplied = Some(<<"alice", "">>)

\* C9: with location "any" every file of the directory can be selected; with
\* another location the selected file's name starts with the location, and
\* when no name starts with it the renderer raises instead of returning a
\* service block (so no manifest is generated).
C9_LocationFiltersSelection ==
    /\ (config_dir.kind = "dir" /\ config_dir.files # {}) =>
          choose_random_file(config_dir, LocationPrefix(ANY)) = {Some(f) : f \in config_dir.files}
    /\ (ManifestGenerated /\ method_choice = "2") =>
          \A i \in 1..Len(Blocks) :
             /\ Blocks[i].config_file # None
             /\ \A f \in Blocks[i].config_file :
                   /\ f \in config_dir.files
                   /\ server_locations[i] # ANY => StartsWith(f, server_locations[i])
    /\ (hist.tried /\ method_choice = "2" /\ config_dir.kind = "dir") =>
          \A i \in 1..num_connections :
             (/\ i <= Len(server_locations)
              /\ server_locations[i] # ANY
              /\ ~\E f \in config_dir.files : StartsWith(f, server_locations[i]))
             => /\ hist.generate \in {"FileNotFoundError", "CalledProcessError"}
                /\ config_file = "unbound"
                /\ \A chosen \in choose_random_file(config_dir, LocationPrefix(server_locations[i])), ip \in LocalIps :
                      generate_openvpn_proxy_service(i, server_locations[i], config_dir, EnvFileName, chosen, ip).raised = "FileNotFoundError"

C9_Witness ==
    /\ ManifestGenerated
    /\ method_choice = "2"
    /\ num_connections = 2
    /\ server_locations = <<US, ANY>>
    /\ config_dir = Dir({File_us1, File_de1})
    /\ Blocks[1].config_file = Some(File_us1)
    /\ Blocks[2].config_file = Some(File_de1)

\* C10 (as claimed): the endpoints display_proxy_info prints are exactly the
\* host ports the manifest generated in the same run publishes.
C10_DisplayedEqualsPublished ==
    (pc = "open_browsers" /\ ManifestGenerated) =>
        displayed = Published(Blocks)

=============================================================================
